---------------------------- MODULE Spec2Model ----------------------------
(***************************************************************************)
(* Model of the supply-sight inventory API (src/server.js): the in-memory  *)
(* catalog store (warehouses, products), the three queries and the two     *)
(* mutations of the GraphQL resolvers.                                     *)
(*                                                                         *)
(* Conventions.  A JavaScript string that the code only compares (ids,     *)
(* status, range) is a TLA+ string; a string the code searches in (name,   *)
(* sku, filters.search) is the sequence of its characters.  An optional    *)
(* argument is None (undefined) or Some(v).  Arrays are sequences, so the  *)
(* JavaScript index k is k + 1 here and findIndex's -1 is 0.               *)
(***************************************************************************)
EXTENDS Integers, Sequences, FiniteSets

VARIABLES
    warehouses,   \* the `warehouses` array of the store
    products,     \* the `products` array of the store
    request,      \* the operation being answered, NoRequest when idle
    response      \* what its resolver returned or threw

vars == <<warehouses, products, request, response>>

---------------------------------------------------------------------------
(* Bounds of the model: the argument values the callers draw from.         *)

MaxQuantityStep == 2   \* quantity is 100 * k, k in -1..MaxQuantityStep
MaxDemandStep == 1     \* demand is 40 * k, k in -1..MaxDemandStep
MaxPage == 2           \* pagination.page in -1..MaxPage, or absent
MaxLimit == 2          \* pagination.limit in -1..MaxLimit, or absent

---------------------------------------------------------------------------
(* Optional values and small helpers.                                      *)

None == <<>>
Some(v) == <<v>>

Min(S) == CHOOSE x \in S : \A y \in S : x <= y
Max2(a, b) == IF a > b THEN a ELSE b
Min2(a, b) == IF a < b THEN a ELSE b

UpperCase == <<"A","B","C","D","E","F","G","H","I","J","K","L","M",
               "N","O","P","Q","R","S","T","U","V","W","X","Y","Z">>
LowerCase == <<"a","b","c","d","e","f","g","h","i","j","k","l","m",
               "n","o","p","q","r","s","t","u","v","w","x","y","z">>

\* String.prototype.toLowerCase, character by character.
toLowerChar(c) ==
    IF \E i \in 1..Len(UpperCase) : UpperCase[i] = c
    THEN LowerCase[CHOOSE i \in 1..Len(UpperCase) : UpperCase[i] = c]
    ELSE c

toLowerCase(s) == [i \in 1..Len(s) |-> toLowerChar(s[i])]

\* String.prototype.includes: sub occurs in s as a contiguous run.
includes(s, sub) ==
    \E k \in 0..(Len(s) - Len(sub)) : \A j \in 1..Len(sub) : s[k + j] = sub[j]

\* Truthiness of an optional string argument: undefined and "" are falsy.
truthy(opt) == Len(opt) > 0 /\ opt[1] # ""

\* The same for a string kept as its characters.
truthyChars(opt) == Len(opt) > 0 /\ Len(opt[1]) > 0

sliceInclusiveEnd(arr, start, end) ==
    LET len == Len(arr)
        k == IF start < 0 THEN Max2(len + start, 0) ELSE Min2(start, len)
        final == IF end < 0 THEN Max2(len + end, 0) ELSE Min2(end, len)
    IN  SubSeq(arr, k + 1, Min2(final + 1, len))

\* Array.prototype.slice(start, end), negative indices counted from the end.
slice(arr, start, end) ==
    LET len == Len(arr)
        k == IF start < 0 THEN Max2(len + start, 0) ELSE Min2(start, len)
        final == IF end < 0 THEN Max2(len + end, 0) ELSE Min2(end, len)
    IN  SubSeq(arr, k + 1, final)

---------------------------------------------------------------------------
(* The seed data.                                                          *)

SeedWarehouses == <<
    [id |-> "BLR-A", name |-> "Bangalore Warehouse A"],
    [id |-> "BLR-B", name |-> "Bangalore Warehouse B"],
    [id |-> "PNQ-C", name |-> "Pune Warehouse C"],
    [id |-> "DEL-B", name |-> "Delhi Warehouse B"],
    [id |-> "MUM-A", name |-> "Mumbai Warehouse A"] >>

SeedProducts == <<
    [id |-> "P-1001",
     name |-> <<"1","2","m","m"," ","H","e","x"," ","B","o","l","t">>,
     sku |-> <<"H","E","X","-","1","2","-","1","0","0">>,
     warehouseId |-> "BLR-A", stock |-> 180, demand |-> 120],
    [id |-> "P-1002",
     name |-> <<"S","t","e","e","l"," ","W","a","s","h","e","r">>,
     sku |-> <<"W","S","R","-","0","8","-","5","0","0">>,
     warehouseId |-> "BLR-A", stock |-> 50, demand |-> 80],
    [id |-> "P-1003",
     name |-> <<"M","8"," ","N","u","t">>,
     sku |-> <<"N","U","T","-","0","8","-","2","0","0">>,
     warehouseId |-> "PNQ-C", stock |-> 80, demand |-> 80],
    [id |-> "P-1004",
     name |-> <<"B","e","a","r","i","n","g"," ","6","0","8","Z","Z">>,
     sku |-> <<"B","R","G","-","6","0","8","-","5","0">>,
     warehouseId |-> "DEL-B", stock |-> 24, demand |-> 120],
    [id |-> "P-1005",
     name |-> <<"S","t","e","e","l"," ","R","o","d"," ","1","0","m","m">>,
     sku |-> <<"R","O","D","-","1","0","-","3","0","0">>,
     warehouseId |-> "MUM-A", stock |-> 200, demand |-> 150],
    [id |-> "P-1006",
     name |-> <<"A","l","u","m","i","n","u","m"," ","S","h","e","e","t">>,
     sku |-> <<"A","L","U","-","S","H","T","-","2","0","0">>,
     warehouseId |-> "BLR-B", stock |-> 75, demand |-> 100] >>

---------------------------------------------------------------------------
(* Helpers of the resolvers.  ps and ws are the store's two arrays.        *)

getStatus(stock, demand) ==
    IF stock > demand THEN "healthy"
    ELSE IF stock = demand THEN "low"
    ELSE "critical"

\* warehouses.find(w => w.id === id): the first match, or undefined.
getWarehouseById(ws, id) ==
    LET hits == {i \in 1..Len(ws) : ws[i].id = id}
    IN  IF hits = {} THEN None ELSE Some(ws[Min(hits)])

\* products.findIndex(p => p.id === productId): 0 stands for -1.
findIndex(ps, productId) ==
    LET hits == {i \in 1..Len(ps) : ps[i].id = productId}
    IN  IF hits = {} THEN 0 ELSE Min(hits)

\* { ...product, warehouse, status }
joined(p, warehouse, status) ==
    [id |-> p.id, name |-> p.name, sku |-> p.sku,
     warehouseId |-> p.warehouseId, stock |-> p.stock, demand |-> p.demand,
     warehouse |-> warehouse, status |-> status]

---------------------------------------------------------------------------
(* Query.products                                                          *)

DefaultPage == 0
DefaultLimit == 100

matchesSearch(p, search) ==
    LET searchLower == toLowerCase(search)
    IN  \/ includes(toLowerCase(p.name), searchLower)
        \/ includes(toLowerCase(p.sku), searchLower)

hasNextPage(page, limit, total) == page + limit < total

hasPreviousPage(page) == page > 0

Query_products(ps, ws, filters, pagination) ==
    LET page == IF Len(pagination.page) = 0 THEN DefaultPage
                ELSE pagination.page[1]
        limit == IF Len(pagination.limit) = 0 THEN DefaultLimit
                 ELSE pagination.limit[1]
        all == [i \in 1..Len(ps) |->
                   joined(ps[i], getWarehouseById(ws, ps[i].warehouseId),
                          getStatus(ps[i].stock, ps[i].demand))]
        bySearch == IF truthyChars(filters.search)
                    THEN SelectSeq(all,
                             LAMBDA p : matchesSearch(p, filters.search[1]))
                    ELSE all
        byWarehouse == IF truthy(filters.warehouseId)
                       THEN SelectSeq(bySearch,
                                LAMBDA p : p.warehouseId = filters.warehouseId[1])
                       ELSE bySearch
        filtered == IF truthy(filters.status)
                    THEN SelectSeq(byWarehouse,
                             LAMBDA p : p.status = filters.status[1])
                    ELSE byWarehouse
        total == Len(filtered)
    IN  [kind |-> "connection",
         items |-> slice(filtered, page, page + limit),
         total |-> total,
         pageInfo |-> [hasNextPage |-> hasNextPage(page, limit, total),
                       hasPreviousPage |-> hasPreviousPage(page)]]

---------------------------------------------------------------------------
(* Query.warehouses and Query.kpis                                         *)

Query_warehouses(ws) == [kind |-> "warehouses", items |-> ws]

\* One point per day of the window; the points' stock and demand are drawn
\* from Math.random() and never stored, so only the window is kept.
Query_kpis(range) ==
    [kind |-> "kpis",
     days |-> IF range = "7d" THEN 7 ELSE IF range = "14d" THEN 14 ELSE 30]

---------------------------------------------------------------------------
(* Mutation.updateDemand.  A mutation yields the store's products after    *)
(* the call and the response: a product, or the error thrown.              *)

errProductNotFound(productId) ==
    [kind |-> "error", type |-> "NotFound", entity |-> "product",
     id |-> productId]

updateDemandWriteFirst(ps, productIndex, demand) ==
    [ps EXCEPT ![1].demand = demand]

\* products[productIndex].demand = demand
updateDemandWrite(ps, productIndex, demand) ==
    [ps EXCEPT ![productIndex].demand = demand]

Mutation_updateDemand(ps, ws, productId, demand) ==
    LET productIndex == findIndex(ps, productId)
        after == updateDemandWrite(ps, productIndex, demand)
    IN  IF productIndex = 0
        THEN [products |-> ps, response |-> errProductNotFound(productId)]
        ELSE [products |-> after,
              response |->
                  [kind |-> "product",
                   product |->
                       joined(after[productIndex],
                              getWarehouseById(ws, after[productIndex].warehouseId),
                              getStatus(after[productIndex].stock, demand))]]

---------------------------------------------------------------------------
(* Mutation.transferStock                                                  *)

errInvalidSource(fromWarehouse) ==
    [kind |-> "error", type |-> "InvalidSource", warehouse |-> fromWarehouse]

errWarehouseNotFound(toWarehouse) ==
    [kind |-> "error", type |-> "NotFound", entity |-> "warehouse",
     id |-> toWarehouse]

errInsufficientStock(quantity, stock) ==
    [kind |-> "error", type |-> "InsufficientStock", quantity |-> quantity,
     stock |-> stock]

NoError == [kind |-> "ok"]

transferValidateNoWarehouseCheck(ps, ws, productIndex, fromWarehouse, toWarehouse, quantity) ==
    LET product == ps[productIndex]
    IN  IF product.warehouseId # fromWarehouse
        THEN errInvalidSource(fromWarehouse)
        ELSE IF quantity > product.stock
        THEN errInsufficientStock(quantity, product.stock)
        ELSE NoError

transferValidateStockFirst(ps, ws, productIndex, fromWarehouse, toWarehouse, quantity) ==
    LET product == ps[productIndex]
    IN  IF quantity > product.stock
        THEN errInsufficientStock(quantity, product.stock)
        ELSE IF product.warehouseId # fromWarehouse
        THEN errInvalidSource(fromWarehouse)
        ELSE IF Len(getWarehouseById(ws, toWarehouse)) = 0
        THEN errWarehouseNotFound(toWarehouse)
        ELSE NoError

\* The three validations that follow the product lookup, in order.
transferValidate(ps, ws, productIndex, fromWarehouse, toWarehouse, quantity) ==
    LET product == ps[productIndex]
    IN  IF product.warehouseId # fromWarehouse
        THEN errInvalidSource(fromWarehouse)
        ELSE IF Len(getWarehouseById(ws, toWarehouse)) = 0
        THEN errWarehouseNotFound(toWarehouse)
        ELSE IF quantity > product.stock
        THEN errInsufficientStock(quantity, product.stock)
        ELSE NoError

transferWriteSubtract(ps, productIndex, toWarehouse, quantity) ==
    [ps EXCEPT ![productIndex].warehouseId = toWarehouse,
               ![productIndex].stock = ps[productIndex].stock - quantity]

\* products[productIndex].warehouseId = toWarehouse; .stock = quantity
transferWrite(ps, productIndex, toWarehouse, quantity) ==
    [ps EXCEPT ![productIndex].warehouseId = toWarehouse,
               ![productIndex].stock = quantity]

transferStockWriteBeforeStockCheck(ps, ws, productId, fromWarehouse, toWarehouse, quantity) ==
    LET productIndex == findIndex(ps, productId)
        error == transferValidate(ps, ws, productIndex, fromWarehouse,
                                  toWarehouse, quantity)
        after == transferWrite(ps, productIndex, toWarehouse, quantity)
    IN  IF productIndex = 0
        THEN [products |-> ps, response |-> errProductNotFound(productId)]
        ELSE IF error.kind = "error" /\ error.type = "InsufficientStock"
        THEN [products |-> [ps EXCEPT ![productIndex].warehouseId = toWarehouse],
              response |-> error]
        ELSE IF error # NoError
        THEN [products |-> ps, response |-> error]
        ELSE [products |-> after,
              response |->
                  [kind |-> "product",
                   product |->
                       joined(after[productIndex],
                              getWarehouseById(ws, toWarehouse),
                              getStatus(quantity, ps[productIndex].demand))]]

Mutation_transferStock(ps, ws, productId, fromWarehouse, toWarehouse, quantity) ==
    LET productIndex == findIndex(ps, productId)
        error == transferValidate(ps, ws, productIndex, fromWarehouse,
                                  toWarehouse, quantity)
        after == transferWrite(ps, productIndex, toWarehouse, quantity)
    IN  IF productIndex = 0
        THEN [products |-> ps, response |-> errProductNotFound(productId)]
        ELSE IF error # NoError
        THEN [products |-> ps, response |-> error]
        ELSE [products |-> after,
              response |->
                  [kind |-> "product",
                   product |->
                       joined(after[productIndex],
                              getWarehouseById(ws, toWarehouse),
                              getStatus(quantity, ps[productIndex].demand))]]

---------------------------------------------------------------------------
(* The arguments the callers send.                                         *)

ProductIdInputs == {"P-1001", "P-1002", "P-9999"}
WarehouseIdInputs == {"BLR-A", "BLR-B", "XXX-0"}
QuantityInputs == {100 * k : k \in -1..MaxQuantityStep}
DemandInputs == {40 * k : k \in -1..MaxDemandStep}
RangeInputs == {"7d", "14d", "30d"}

SearchInputs == {None, Some(<<>>), Some(<<"b","o","l","t">>),
                 Some(<<"H","E","X","-","1">>), Some(<<"S","T","E","E","L">>)}
WarehouseFilterInputs == {None, Some(""), Some("BLR-A"), Some("XXX-0")}
StatusInputs == {None, Some(""), Some("healthy"), Some("low"),
                 Some("critical"), Some("unknown")}

\* One filter at a time, and one request with all three.
FilterInputs ==
    {f \in [search : SearchInputs, warehouseId : WarehouseFilterInputs,
            status : StatusInputs] :
        \/ Len(f.search) + Len(f.warehouseId) + Len(f.status) <= 1
        \/ f = [search |-> Some(<<"S","T","E","E","L">>),
                warehouseId |-> Some("BLR-A"), status |-> Some("critical")]}

PaginationInputs ==
    [page : {None} \cup {Some(n) : n \in -1..MaxPage},
     limit : {None} \cup {Some(n) : n \in -1..MaxLimit}]

---------------------------------------------------------------------------
(* The state machine: a resolver runs to completion on one request, then   *)
(* the response is sent.                                                   *)

NoRequest == [op |-> "none"]
NoResponse == [kind |-> "none"]

Init ==
    /\ warehouses = SeedWarehouses
    /\ products = SeedProducts
    /\ request = NoRequest
    /\ response = NoResponse

Products ==
    /\ request = NoRequest
    /\ \E filters \in FilterInputs, pagination \in PaginationInputs :
          /\ request' = [op |-> "products", filters |-> filters,
                         pagination |-> pagination]
          /\ response' = Query_products(products, warehouses, filters, pagination)
    /\ UNCHANGED <<warehouses, products>>

Warehouses ==
    /\ request = NoRequest
    /\ request' = [op |-> "warehouses"]
    /\ response' = Query_warehouses(warehouses)
    /\ UNCHANGED <<warehouses, products>>

Kpis ==
    /\ request = NoRequest
    /\ \E range \in RangeInputs :
          /\ request' = [op |-> "kpis", range |-> range]
          /\ response' = Query_kpis(range)
    /\ UNCHANGED <<warehouses, products>>

UpdateDemand ==
    /\ request = NoRequest
    /\ \E productId \in ProductIdInputs, demand \in DemandInputs :
          LET r == Mutation_updateDemand(products, warehouses, productId, demand)
          IN  /\ request' = [op |-> "updateDemand", productId |-> productId,
                             demand |-> demand]
              /\ products' = r.products
              /\ response' = r.response
    /\ UNCHANGED warehouses

TransferStock ==
    /\ request = NoRequest
    /\ \E productId \in ProductIdInputs, fromWarehouse \in WarehouseIdInputs,
          toWarehouse \in WarehouseIdInputs, quantity \in QuantityInputs :
          LET r == Mutation_transferStock(products, warehouses, productId,
                                          fromWarehouse, toWarehouse, quantity)
          IN  /\ request' = [op |-> "transferStock", productId |-> productId,
                             fromWarehouse |-> fromWarehouse,
                             toWarehouse |-> toWarehouse, quantity |-> quantity]
              /\ products' = r.products
              /\ response' = r.response
    /\ UNCHANGED warehouses

\* The response leaves the server (the plugin gives an error response the
\* transport status 200, which is not kept); the next request can be answered.
WillSendResponse ==
    /\ request # NoRequest
    /\ request' = NoRequest
    /\ response' = NoResponse
    /\ UNCHANGED <<warehouses, products>>

Next ==
    \/ Products
    \/ Warehouses
    \/ Kpis
    \/ UpdateDemand
    \/ TransferStock
    \/ WillSendResponse

Spec == Init /\ [][Next]_vars

---------------------------------------------------------------------------
(* Vocabulary of the properties.                                           *)

Idle == request = NoRequest
ProductIndexes == 1..Len(products)
WarehouseIds == {warehouses[w].id : w \in 1..Len(warehouses)}
HasProduct(ps, productId) == \E i \in 1..Len(ps) : ps[i].id = productId
IndexOf(ps, productId) == CHOOSE i \in 1..Len(ps) : ps[i].id = productId
IsError(r) == r.kind = "error"
Succeeded(r) == r.kind = "product"

\* The three-way comparison of the status rule.
ThreeWay(stock, demand) ==
    CASE stock > demand -> "healthy"
      [] stock = demand -> "low"
      [] stock < demand -> "critical"

\* What a mutation answered: "ok", or the error with its variant.
Outcome(r) ==
    IF ~IsError(r) THEN "ok"
    ELSE IF r.type = "NotFound" THEN "NotFound:" \o r.entity
    ELSE r.type

\* A product record differs from another at most in the given fields.
SameIdentity(p, q) == p.id = q.id /\ p.name = q.name /\ p.sku = q.sku

OthersUnchanged(i) ==
    /\ Len(products') = Len(products)
    /\ \A j \in ProductIndexes : j # i => products'[j] = products[j]
    /\ warehouses' = warehouses

---------------------------------------------------------------------------
(* C1: every product's stock and demand are non-negative integers in every *)
(* reachable state.  The resolvers accept any Int, so this fails.          *)
C1_StockAndDemandNonNegative ==
    \A i \in ProductIndexes :
        products[i].stock \in Nat /\ products[i].demand \in Nat

---------------------------------------------------------------------------
(* C2: every product's warehouseId is the id of a warehouse of the store,  *)
(* and a transfer to a warehouse that does not exist is rejected.          *)
C2_WarehouseIdResolves ==
    /\ \A i \in ProductIndexes : products[i].warehouseId \in WarehouseIds
    /\ (request.op = "transferStock" /\ request.toWarehouse \notin WarehouseIds)
          => IsError(response)

C2_Witness ==
    /\ request.op = "transferStock"
    /\ request.toWarehouse \notin WarehouseIds
    /\ Outcome(response) = "NotFound:warehouse"
    /\ products[1].warehouseId = "BLR-B"

---------------------------------------------------------------------------
(* C3: the store changes only in a successful updateDemand or              *)
(* transferStock: a failed mutation, a query and the sending of a response *)
(* leave products and warehouses as they were.                             *)
C3_StoreChangesOnlyOnSuccess ==
    [][(products' # products \/ warehouses' # warehouses)
          => /\ request'.op \in {"updateDemand", "transferStock"}
             /\ Succeeded(response')]_vars

C3_Witness ==
    /\ request.op = "transferStock"
    /\ Outcome(response) = "InsufficientStock"
    /\ request.toWarehouse # products[IndexOf(products, request.productId)].warehouseId
    /\ products # SeedProducts

---------------------------------------------------------------------------
\* The outcome the four conditions give for request r on products ps.
C4_Expected(ps, r) ==
    IF ~HasProduct(ps, r.productId) THEN "NotFound:product"
    ELSE IF ps[IndexOf(ps, r.productId)].warehouseId # r.fromWarehouse
    THEN "InvalidSource"
    ELSE IF r.toWarehouse \notin WarehouseIds THEN "NotFound:warehouse"
    ELSE IF r.quantity > ps[IndexOf(ps, r.productId)].stock
    THEN "InsufficientStock"
    ELSE "ok"

(* C4: transferStock fails exactly when the product is unknown, or its     *)
(* warehouse is not fromWarehouse, or toWarehouse is unknown, or quantity  *)
(* exceeds its stock, and reports the first of these, in this order.       *)
C4_TransferFailsInOrder ==
    [][request'.op = "transferStock"
          => Outcome(response') = C4_Expected(products, request')]_vars

\* Three of the conditions hold at once and the first one is reported.
C4_Witness ==
    /\ request.op = "transferStock"
    /\ Outcome(response) = "InvalidSource"
    /\ request.toWarehouse \notin WarehouseIds
    /\ request.quantity > products[IndexOf(products, request.productId)].stock

---------------------------------------------------------------------------
(* C5: a successful transferStock sets the product's warehouseId to        *)
(* toWarehouse and its stock to quantity, keeps its id, name, sku and      *)
(* demand, keeps every other product and the warehouses, and returns the   *)
(* product with the destination warehouse and the status of quantity       *)
(* against its demand.                                                     *)
C5_TransferEffect ==
    [][(request'.op = "transferStock" /\ Succeeded(response'))
          => LET i == IndexOf(products, request'.productId)
                 ret == response'.product
             IN  /\ products'[i].warehouseId = request'.toWarehouse
                 /\ products'[i].stock = request'.quantity
                 /\ products'[i].demand = products[i].demand
                 /\ SameIdentity(products'[i], products[i])
                 /\ OthersUnchanged(i)
                 /\ SameIdentity(ret, products[i])
                 /\ ret.stock = request'.quantity
                 /\ ret.demand = products[i].demand
                 /\ Len(ret.warehouse) = 1
                 /\ ret.warehouse[1].id = request'.toWarehouse
                 /\ ret.warehouse[1] \in {warehouses[w] : w \in 1..Len(warehouses)}
                 /\ ret.status = ThreeWay(request'.quantity, products[i].demand)]_vars

\* transferStock("P-1001", "BLR-A", "BLR-B", 100) on the seed stock of 180.
C5_Witness ==
    /\ request.op = "transferStock"
    /\ Succeeded(response)
    /\ request.productId = "P-1001"
    /\ request.fromWarehouse = "BLR-A"
    /\ request.quantity = 100
    /\ products[1].warehouseId = "BLR-B"
    /\ products[1].stock = 100
    /\ response.product.status = "critical"

---------------------------------------------------------------------------
(* C6: updateDemand fails with NotFound on an unknown product; otherwise   *)
(* it sets that product's demand and nothing else, and the returned status *)
(* is that of the unchanged stock against the new demand.                  *)
C6_UpdateDemandEffect ==
    [][request'.op = "updateDemand"
          => IF ~HasProduct(products, request'.productId)
             THEN /\ Outcome(response') = "NotFound:product"
                  /\ products' = products
                  /\ warehouses' = warehouses
             ELSE LET i == IndexOf(products, request'.productId)
                      ret == response'.product
                  IN  /\ Succeeded(response')
                      /\ products'[i].demand = request'.demand
                      /\ products'[i].stock = products[i].stock
                      /\ products'[i].warehouseId = products[i].warehouseId
                      /\ SameIdentity(products'[i], products[i])
                      /\ OthersUnchanged(i)
                      /\ SameIdentity(ret, products[i])
                      /\ ret.stock = products[i].stock
                      /\ ret.demand = request'.demand
                      /\ ret.status = ThreeWay(products[i].stock, request'.demand)]_vars

\* updateDemand("P-1002", 40): critical (50 against 80) becomes healthy.
C6_Witness ==
    /\ request.op = "updateDemand"
    /\ request.productId = "P-1002"
    /\ request.demand = 40
    /\ products[2].stock = 50
    /\ products[2].demand = 40
    /\ response.product.status = "healthy"

---------------------------------------------------------------------------
(* C7: every listed item carries the status of its product's current stock *)
(* and demand, and a listing filtered by status s holds exactly the        *)
(* products whose status is s: none when s is no status at all.  The       *)
(* resolver skips the filter when s is the empty string, so this fails.    *)
C7_StatusNeverStale ==
    request.op = "products" =>
        /\ \A k \in 1..Len(response.items) :
              LET p == products[IndexOf(products, response.items[k].id)]
              IN  response.items[k].status = ThreeWay(p.stock, p.demand)
        /\ Len(request.filters.status) = 1 =>
              /\ \A k \in 1..Len(response.items) :
                    response.items[k].status = request.filters.status[1]
              /\ (Len(request.filters.search) = 0
                     /\ Len(request.filters.warehouseId) = 0)
                    => response.total =
                          Cardinality({i \in ProductIndexes :
                              ThreeWay(products[i].stock, products[i].demand)
                                  = request.filters.status[1]})

---------------------------------------------------------------------------
\* The page and limit of the listing being answered, defaults applied.
RequestPage ==
    IF Len(request.pagination.page) = 0 THEN 0 ELSE request.pagination.page[1]

RequestLimit ==
    IF Len(request.pagination.limit) = 0 THEN 100
    ELSE request.pagination.limit[1]

\* Every product passing the request's filters: the unpaginated listing.
FilteredNow(filters) ==
    Query_products(products, warehouses, filters,
                   [page |-> None, limit |-> None]).items

(* C8: for every integer page and limit, total is the number of products   *)
(* passing the filters and items is the run of the filtered products at    *)
(* the offsets page .. page + limit - 1 that exist.  slice() counts a      *)
(* negative page or end from the end of the array, so this fails.          *)
C8_ContiguousRun ==
    request.op = "products" =>
        LET all == FilteredNow(request.filters)
            offsets == {j \in 0..(Len(all) - 1) :
                           RequestPage <= j /\ j < RequestPage + RequestLimit}
        IN  /\ response.total = Len(all)
            /\ Len(response.items) = Cardinality(offsets)
            /\ \A k \in 1..Len(response.items) :
                  /\ RequestPage + k \in 1..Len(all)
                  /\ response.items[k] = all[RequestPage + k]
            /\ RequestPage >= response.total => response.items = <<>>

---------------------------------------------------------------------------
\* The listing of one page, and the items of the pages from an offset on.
PageAt(filters, page, limit) ==
    Query_products(products, warehouses, filters,
                   [page |-> Some(page), limit |-> Some(limit)])

RECURSIVE PagesFrom(_, _, _, _)
PagesFrom(filters, page, limit, total) ==
    IF page >= total THEN <<>>
    ELSE PageAt(filters, page, limit).items
            \o PagesFrom(filters, page + limit, limit, total)

(* C9: for a fixed store, fixed filters and a limit L > 0, the listings at *)
(* offsets 0, L, 2L, ... below total give, concatenated, every filtered    *)
(* product once and in order; hasNextPage is page + limit < total, false   *)
(* only on the last of them, and hasPreviousPage is page > 0.              *)
C9_PagesPartition ==
    /\ Idle =>
          \A filters \in FilterInputs, limit \in 1..(MaxLimit + 1) :
              LET all == FilteredNow(filters)
                  total == Len(all)
                  offsets == {k * limit : k \in 0..total} \cap 0..(total - 1)
              IN  /\ PagesFrom(filters, 0, limit, total) = all
                  /\ \A page \in offsets :
                        LET info == PageAt(filters, page, limit).pageInfo
                        IN  /\ info.hasNextPage = (page + limit < total)
                            /\ info.hasNextPage = (\E next \in offsets : next > page)
                            /\ info.hasPreviousPage = (page > 0)
    /\ request.op = "products" =>
          /\ response.pageInfo.hasNextPage
                = (RequestPage + RequestLimit < response.total)
          /\ response.pageInfo.hasPreviousPage = (RequestPage > 0)

\* limit = 2 at page = 2 over the six products, after a mutation.
C9_Witness ==
    /\ request.op = "products"
    /\ request.pagination = [page |-> Some(2), limit |-> Some(2)]
    /\ response.total = 6
    /\ Len(response.items) = 2
    /\ response.items[1].id = "P-1003"
    /\ response.pageInfo = [hasNextPage |-> TRUE, hasPreviousPage |-> TRUE]
    /\ products # SeedProducts

---------------------------------------------------------------------------
(* What one mutation call can do to a product's (stock, demand).           *)
TargetStocks(p) == {n \in QuantityInputs \cup {p.stock, p.stock + 1} : n >= 0}
TargetDemands(p) == {n \in DemandInputs \cup {p.demand, p.demand + 1} : n >= 0}
CallWarehouses(p) == WarehouseIdInputs \cup {p.warehouseId}

\* Some single updateDemand or transferStock call takes product i to
\* (stock, demand).
OneCallReaches(i, stock, demand) ==
    LET p == products[i]
        Reached(ps) == ps[i].stock = stock /\ ps[i].demand = demand
    IN  \/ \E d \in DemandInputs \cup {demand} :
              LET r == Mutation_updateDemand(products, warehouses, p.id, d)
              IN  Succeeded(r.response) /\ Reached(r.products)
        \/ \E fromWarehouse \in CallWarehouses(p), toWarehouse \in CallWarehouses(p),
              q \in QuantityInputs \cup {stock} :
              LET r == Mutation_transferStock(products, warehouses, p.id,
                                              fromWarehouse, toWarehouse, q)
              IN  Succeeded(r.response) /\ Reached(r.products)

(* C10 as stated: from any non-negative (stock, demand) every non-negative *)
(* pair is one mutation call away.                                         *)
C10_AnyPairInOneMutation ==
    Idle =>
        \A i \in ProductIndexes :
            (products[i].stock >= 0 /\ products[i].demand >= 0) =>
                \A stock \in TargetStocks(products[i]),
                   demand \in TargetDemands(products[i]) :
                    OneCallReaches(i, stock, demand)

(* C10 as amended: one mutation call changes one of the two fields.  From  *)
(* a non-negative (stock, demand) the non-negative pair (stock', demand')  *)
(* is one call away exactly when stock' = stock (updateDemand) or          *)
(* demand' = demand and stock' <= stock (transferStock).                   *)
C10_OneFieldPerMutation ==
    Idle =>
        \A i \in ProductIndexes :
            (products[i].stock >= 0 /\ products[i].demand >= 0) =>
                \A stock \in TargetStocks(products[i]),
                   demand \in TargetDemands(products[i]) :
                    OneCallReaches(i, stock, demand)
                        <=> \/ stock = products[i].stock
                            \/ /\ demand = products[i].demand
                               /\ stock <= products[i].stock

\* P-1001 went from (180, 120) to (100, 120) in one transferStock call.
C10_Witness ==
    /\ request.op = "transferStock"
    /\ Succeeded(response)
    /\ request.productId = "P-1001"
    /\ products[1].stock = 100
    /\ products[1].demand = 120
    /\ products[2] = SeedProducts[2]

=============================================================================
